---- MODULE Spec2Model ----
(***************************************************************************)
(* A model of the tree-lowering visitors of new_pymtl/translation/         *)
(* visitors.py.  Syntax nodes are records tagged by `kind`; the annotation *)
(* slot `_object` of a node is the field `obj` (a record describing the    *)
(* design object, NoObject for Python's None).  A node kind that no        *)
(* visitor annotates (Num, Index, Call, ...) has no `obj` field at all,    *)
(* exactly as the Python node has no `_object` attribute.                  *)
(*                                                                         *)
(* Every visitor is a RECURSIVE operator that returns the rewritten node   *)
(* together with the exception it raised ("" when it returned normally)    *)
(* and the visitor instance's fields after the call.                       *)
(***************************************************************************)
EXTENDS Integers, Sequences, FiniteSets, TLC

VARIABLES
  pass,     \* the visitor class that was instantiated
  pc,       \* "ready": constructed, "done": visit returned or raised
  tree,     \* the node (or statement list) handed to the visitor
  result,   \* what visit returned (NoNode while there is none)
  raised,   \* "" or the exception that left visit
  self_,    \* the visitor instance's fields
  heap      \* mutable fields of the design objects (shared between runs)

vars == <<pass, pc, tree, result, raised, self_, heap>>

-----------------------------------------------------------------------------
(* Syntax nodes (the _ast classes the visitors touch)                      *)

NoNode  == [kind |-> "None"]
Deleted == [kind |-> "Deleted"]
Pass    == [kind |-> "Pass"]

\* A design object as the visitors see it: its class, its identity (the path
\* from the component being translated), its `name` field and, for signals
\* and integers, its width or value.
Object(cls, id, name, n) ==
  [cls |-> cls, id |-> id, name |-> name, n |-> n, parent |-> "", elts |-> <<>>]
\* An indexed collection: a list object and its elements, in order.
ListObject(cls, id, name, elts) ==
  [cls |-> cls, id |-> id, name |-> name, n |-> Len(elts), parent |-> "",
   elts |-> elts]
NoObject == Object("None", "", "", 0)

Num(n) == [kind |-> "Num", n |-> n]
Name(id, ctx, obj) == [kind |-> "Name", id |-> id, ctx |-> ctx, obj |-> obj]
Attribute(value, attr, ctx, obj) ==
  [kind |-> "Attribute", value |-> value, attr |-> attr, ctx |-> ctx, obj |-> obj]
Subscript(value, slice, ctx, obj) ==
  [kind |-> "Subscript", value |-> value, slice |-> slice, ctx |-> ctx, obj |-> obj]
Index(value) == [kind |-> "Index", value |-> value]
Slice(lower, upper, step) ==
  [kind |-> "Slice", lower |-> lower, upper |-> upper, step |-> step]
Call(func, args) == [kind |-> "Call", func |-> func, args |-> args]
For(target, iter, body) ==
  [kind |-> "For", target |-> target, iter |-> iter, body |-> body]
Assign(targets, value) == [kind |-> "Assign", targets |-> targets, value |-> value]
Expr(value) == [kind |-> "Expr", value |-> value]
Module(body) == [kind |-> "Module", body |-> body]
FunctionDef(name, args, body, decorator_list) ==
  [kind |-> "FunctionDef", name |-> name, args |-> args, body |-> body,
   decorator_list |-> decorator_list]

\* What a visitor call hands back: the node, the exception, the instance.
Ret(node, st)   == [node |-> node, err |-> "", st |-> st]
Raise(err, st)  == [node |-> NoNode, err |-> err, st |-> st]

NoFields == [none |-> TRUE]
NoHeap   == [none |-> TRUE]

SeqsUpTo(S, n) == UNION { [1..k -> S] : k \in 0..n }

-----------------------------------------------------------------------------
(* ThreeExprLoops                                                          *)

MaxRangeArgs == 4

RECURSIVE ThreeExprLoops_visit(_)
RECURSIVE ThreeExprLoops_visit_list(_)

\* NodeTransformer.generic_visit over a statement list: each statement is
\* replaced by what visit returns; an exception leaves at once.
ThreeExprLoops_visit_list(body) ==
  IF body = <<>> THEN Ret(<<>>, NoFields)
  ELSE LET h == ThreeExprLoops_visit(Head(body)) IN
       IF h.err # "" THEN h
       ELSE LET t == ThreeExprLoops_visit_list(Tail(body)) IN
            IF t.err # "" THEN t
            ELSE Ret(<<h.node>> \o t.node, NoFields)

\* A slip in the two-argument branch: start left at 0.
ThreeExprLoops_bounds_Mutant(args) ==
  IF Len(args) = 1 THEN Slice(Num(0), args[1], Num(1))
  ELSE IF Len(args) = 2 THEN Slice(Num(0), args[2], Num(1))
  ELSE Slice(args[1], args[2], args[3])

\* The Slice built from the call's positional arguments (lines 339-354).
ThreeExprLoops_bounds(args) ==
  IF Len(args) = 1 THEN Slice(Num(0), args[1], Num(1))
  ELSE IF Len(args) = 2 THEN Slice(args[1], args[2], Num(1))
  ELSE Slice(args[1], args[2], args[3])

ThreeExprLoops_visit_For(node) ==
  LET g == ThreeExprLoops_visit_list(node.body) IN
  IF g.err # "" THEN g
  ELSE IF node.iter.kind # "Call" THEN Raise("AssertionError", NoFields)
  ELSE IF node.iter.func.kind # "Name" THEN Raise("AssertionError", NoFields)
  ELSE IF node.iter.func.id \notin {"range", "xrange"}
       THEN Raise("AssertionError", NoFields)
  ELSE IF Len(node.iter.args) \notin {1, 2, 3}
       THEN Raise("Invalid # of arguments to range function!", NoFields)
  ELSE Ret([node EXCEPT !.body = g.node,
                        !.iter = ThreeExprLoops_bounds(node.iter.args)],
           NoFields)

ThreeExprLoops_visit(node) ==
  IF node.kind = "For" THEN ThreeExprLoops_visit_For(node)
  ELSE Ret(node, NoFields)

\* The loops the pass is run on.
RangeArgExprs == {Num(1), Num(2), Name("n", "Load", NoObject)}
InnerArgExprs == {Num(7), Name("m", "Load", NoObject)}
LoopVar(id)   == Name(id, "Store", NoObject)

InnerLoops ==
  { For(LoopVar("j"), Call(Name("range", "Load", NoObject), a), <<Pass>>) :
      a \in SeqsUpTo(InnerArgExprs, MaxRangeArgs) }
  \cup { For(LoopVar("j"), Call(Name("zip", "Load", NoObject), <<Num(7)>>), <<>>) }

LoopBodies == {<<>>, <<Pass>>} \cup { <<Pass, l>> : l \in InnerLoops }

LoopIters ==
  { Call(Name(f, "Load", NoObject), a) :
      f \in {"range", "xrange"}, a \in SeqsUpTo(RangeArgExprs, MaxRangeArgs) }
  \cup { Call(Name("zip", "Load", NoObject), <<Num(1)>>),
         Call(Attribute(Name("s", "Load", NoObject), "rng", "Load", NoObject),
              <<Num(1)>>),
         Name("lst", "Load", NoObject) }

LoopInputs == { For(LoopVar("i"), it, b) : it \in LoopIters, b \in LoopBodies }

InitLoops ==
  /\ pass = "ThreeExprLoops"
  /\ pc = "ready"
  /\ tree \in LoopInputs
  /\ result = NoNode
  /\ raised = ""
  /\ self_ = NoFields
  /\ heap = NoHeap

RunThreeExprLoops ==
  /\ pass = "ThreeExprLoops"
  /\ pc = "ready"
  /\ LET r == ThreeExprLoops_visit(tree) IN
       /\ result' = r.node
       /\ raised' = r.err
  /\ pc' = "done"
  /\ UNCHANGED <<pass, tree, self_, heap>>

SpecLoops == InitLoops /\ [][RunThreeExprLoops]_vars

\* The claim's side of C1, stated without the pass: a supported loop is a
\* call of range/xrange with one to three positional arguments.
SupportedLoop(node) ==
  /\ node.iter.kind = "Call"
  /\ node.iter.func.kind = "Name"
  /\ node.iter.func.id \in {"range", "xrange"}
  /\ Len(node.iter.args) \in {1, 2, 3}

RECURSIVE AllLoopsSupported(_)
AllLoopsSupported(node) ==
  node.kind = "For" =>
    /\ SupportedLoop(node)
    /\ \A k \in 1..Len(node.body) : AllLoopsSupported(node.body[k])

CanonicalTriple(args) ==
  CASE Len(args) = 1 -> <<Num(0), args[1], Num(1)>>
    [] Len(args) = 2 -> <<args[1], args[2], Num(1)>>
    [] Len(args) = 3 -> <<args[1], args[2], args[3]>>

RECURSIVE Canonicalized(_, _)
Canonicalized(before, after) ==
  IF before.kind # "For" THEN after = before
  ELSE /\ after.kind = "For"
       /\ after.iter.kind = "Slice"
       /\ <<after.iter.lower, after.iter.upper, after.iter.step>>
            = CanonicalTriple(before.iter.args)
       /\ after.target = before.target
       /\ Len(after.body) = Len(before.body)
       /\ \A k \in 1..Len(before.body) :
            Canonicalized(before.body[k], after.body[k])

\* C1: every for-loop over range/xrange with 1, 2 or 3 positional arguments
\* comes back with its iterable replaced by Slice(0, a0, 1), Slice(a0, a1, 1)
\* or Slice(a0, a1, a2); its target and the statements of its body are the
\* ones it had (nested loops canonicalized by the same rule).
C1_RangeCanonicalized ==
  (pass = "ThreeExprLoops" /\ pc = "done" /\ AllLoopsSupported(tree)) =>
    /\ raised = ""
    /\ Canonicalized(tree, result)

C1_Witness ==
  /\ pass = "ThreeExprLoops" /\ pc = "done" /\ raised = ""
  /\ Len(tree.iter.args) = 2
  /\ tree.iter.args[1] # tree.iter.args[2]
  /\ Len(tree.body) = 2
  /\ Len(tree.body[2].iter.args) = 3
  /\ result.iter = Slice(tree.iter.args[1], tree.iter.args[2], Num(1))

-----------------------------------------------------------------------------
(* RemoveValueNext                                                         *)

ReservedAccessors == {"next", "value", "n", "v"}

\* visit_Attribute (lines 112-119): no generic_visit is made, so nothing
\* below an Attribute node is visited, and the receiver that replaces an
\* accessor node is returned as it stands.
RemoveValueNext_visit_Attribute(node) ==
  IF node.attr \in ReservedAccessors
  THEN Ret([node.value EXCEPT !.ctx = node.ctx], NoFields)
  ELSE Ret(node, NoFields)

RECURSIVE RemoveValueNext_visit(_)

\* NodeTransformer.visit: visit_Attribute for an Attribute, generic_visit
\* (the children, in field order) for every other node.
RemoveValueNext_visit(node) ==
  CASE node.kind = "Attribute" -> RemoveValueNext_visit_Attribute(node)
    [] node.kind = "Subscript" ->
         Ret([node EXCEPT !.value = RemoveValueNext_visit(node.value).node,
                          !.slice = RemoveValueNext_visit(node.slice).node],
             NoFields)
    [] node.kind = "Index" ->
         Ret([node EXCEPT !.value = RemoveValueNext_visit(node.value).node],
             NoFields)
    [] node.kind = "Expr" ->
         Ret([node EXCEPT !.value = RemoveValueNext_visit(node.value).node],
             NoFields)
    [] node.kind = "Assign" ->
         Ret([node EXCEPT
                !.targets = [k \in 1..Len(node.targets) |->
                               RemoveValueNext_visit(node.targets[k]).node],
                !.value = RemoveValueNext_visit(node.value).node],
             NoFields)
    [] OTHER -> Ret(node, NoFields)

\* The expressions the pass is run on: attribute chains over a name, with
\* and without a subscript, read or written.
MaxChain == 2

ChainAttrs == {"next", "v", "f"}

RECURSIVE Chains(_)
Chains(d) ==
  IF d = 0 THEN {Name("x", "Load", NoObject)}
  ELSE Chains(d - 1) \cup
       { Attribute(e, a, "Load", NoObject) : e \in Chains(d - 1), a \in ChainAttrs }

StripIndices == {Num(0), Attribute(Name("i", "Load", NoObject), "v", "Load", NoObject)}

StripExprs ==
  LET subs == { Subscript(e, Index(i), "Load", NoObject) :
                  e \in Chains(MaxChain), i \in StripIndices }
  IN  Chains(MaxChain + 1) \cup subs
        \cup { Attribute(e, a, "Load", NoObject) : e \in subs, a \in ChainAttrs }

StripInputs ==
  { Expr(e) : e \in StripExprs }
  \cup { Assign(<<[e EXCEPT !.ctx = "Store"]>>, Num(1)) : e \in StripExprs }

InitStrip ==
  /\ pass = "RemoveValueNext"
  /\ pc = "ready"
  /\ tree \in StripInputs
  /\ result = NoNode
  /\ raised = ""
  /\ self_ = NoFields
  /\ heap = NoHeap

RunRemoveValueNext ==
  /\ pass = "RemoveValueNext"
  /\ pc = "ready"
  /\ LET r == RemoveValueNext_visit(tree) IN
       /\ result' = r.node
       /\ raised' = r.err
  /\ pc' = "done"
  /\ UNCHANGED <<pass, tree, self_, heap>>

SpecStrip == InitStrip /\ [][RunRemoveValueNext]_vars

\* The claim's side of C2: the tree written with every accessor left out,
\* the receiver carrying the accessor node's context.
RECURSIVE BareTree(_)
BareTree(node) ==
  CASE node.kind = "Attribute" ->
         IF node.attr \in ReservedAccessors
         THEN [BareTree(node.value) EXCEPT !.ctx = node.ctx]
         ELSE [node EXCEPT !.value = BareTree(node.value)]
    [] node.kind = "Subscript" ->
         [node EXCEPT !.value = BareTree(node.value),
                      !.slice = BareTree(node.slice)]
    [] node.kind \in {"Index", "Expr"} ->
         [node EXCEPT !.value = BareTree(node.value)]
    [] node.kind = "Assign" ->
         [node EXCEPT
            !.targets = [k \in 1..Len(node.targets) |-> BareTree(node.targets[k])],
            !.value = BareTree(node.value)]
    [] OTHER -> node

RECURSIVE HasAccessor(_)
HasAccessor(node) ==
  CASE node.kind = "Attribute" ->
         node.attr \in ReservedAccessors \/ HasAccessor(node.value)
    [] node.kind = "Subscript" -> HasAccessor(node.value) \/ HasAccessor(node.slice)
    [] node.kind \in {"Index", "Expr"} -> HasAccessor(node.value)
    [] node.kind = "Assign" ->
         HasAccessor(node.value)
           \/ \E k \in 1..Len(node.targets) : HasAccessor(node.targets[k])
    [] OTHER -> FALSE

\* C2: after the pass every next/value/n/v Attribute node, wherever it
\* stands in the tree, has been replaced by its receiver carrying the
\* accessor's context: the result is the tree of the bare receiver and holds
\* no reserved-accessor Attribute node.
C2_AllAccessorsStripped ==
  (pass = "RemoveValueNext" /\ pc = "done") =>
    /\ result = BareTree(tree)
    /\ ~HasAccessor(result)

-----------------------------------------------------------------------------
(* FlattenSubmodAttrs                                                      *)

\* hasattr( obj, 'class_name' ): component instances carry a class tag.
HasClassName(obj) == obj.cls = "Model"

RECURSIVE FlattenSubmodAttrs_visit(_, _)
RECURSIVE FlattenSubmodAttrs_visit_list(_, _)

\* NodeTransformer.generic_visit for one child field: a child whose visit
\* returns None is deleted from its parent.
FlattenSubmodAttrs_child(node, st) ==
  LET r == FlattenSubmodAttrs_visit(node, st) IN
  IF r.node = NoNode THEN [r EXCEPT !.node = Deleted] ELSE r

\* visit_Attribute (lines 154-175).
FlattenSubmodAttrs_visit_Attribute(node, st) ==
  LET c    == FlattenSubmodAttrs_child(node.value, st)
      sub  == c.st.submodule
      node1 == IF sub # ""
               THEN Name(sub \o "$" \o node.attr, node.ctx, node.obj)
               ELSE [node EXCEPT !.value = c.node]
  IN  IF HasClassName(node1.obj)
      THEN Ret(NoNode, [submodule |-> node1.obj.name])
      ELSE Ret(node1, [submodule |-> ""])

FlattenSubmodAttrs_visit_list(nodes, st) ==
  IF nodes = <<>> THEN Ret(<<>>, st)
  ELSE LET h == FlattenSubmodAttrs_visit(Head(nodes), st)
           t == FlattenSubmodAttrs_visit_list(Tail(nodes), h.st)
       IN  Ret((IF h.node = NoNode THEN <<>> ELSE <<h.node>>) \o t.node, t.st)

FlattenSubmodAttrs_visit(node, st) ==
  CASE node.kind = "Attribute" -> FlattenSubmodAttrs_visit_Attribute(node, st)
    [] node.kind = "Expr" ->
         LET v == FlattenSubmodAttrs_child(node.value, st) IN
         Ret([node EXCEPT !.value = v.node], v.st)
    [] node.kind = "Assign" ->
         LET t == FlattenSubmodAttrs_visit_list(node.targets, st)
             v == FlattenSubmodAttrs_child(node.value, t.st)
         IN  Ret([node EXCEPT !.targets = t.node, !.value = v.node], v.st)
    [] node.kind = "Module" ->
         LET b == FlattenSubmodAttrs_visit_list(node.body, st) IN
         Ret([node EXCEPT !.body = b.node], b.st)
    [] OTHER -> Ret(node, st)

\* The component being translated: two sub-components with a port each,
\* and a port of its own.
TopModel == Object("Model", "s", "top", 0)
SubModel(name) == Object("Model", "s." \o name, name, 0)
Port(owner, name, nbits) ==
  [Object("Signal", owner \o "." \o name, name, nbits) EXCEPT !.parent = owner]

SelfName == Name("s", "Load", TopModel)
SubRef(name) == Attribute(SelfName, name, "Load", SubModel(name))
SubPort(name, ctx) ==
  Attribute(SubRef(name), "port", ctx, Port("s." \o name, "port", 4))
OwnPort(name, ctx) == Attribute(SelfName, name, ctx, Port("s", name, 2))

MaxSubmodStmts == 3

SubmodStmts ==
  { Expr(SubPort("sub", "Load")), Expr(SubPort("sub2", "Load")),
    Expr(SubRef("sub")), Expr(OwnPort("out", "Load")),
    Assign(<<SubPort("sub", "Store")>>, OwnPort("in_", "Load")),
    Assign(<<OwnPort("out", "Store")>>, SubPort("sub2", "Load")) }

SubmodInputs == { Module(b) : b \in SeqsUpTo(SubmodStmts, MaxSubmodStmts) \ {<<>>} }

InitSubmod ==
  /\ pass = "FlattenSubmodAttrs"
  /\ pc = "ready"
  /\ tree \in SubmodInputs
  /\ result = NoNode
  /\ raised = ""
  /\ self_ = [submodule |-> ""]
  /\ heap = NoHeap

RunFlattenSubmodAttrs ==
  /\ pass = "FlattenSubmodAttrs"
  /\ pc = "ready"
  /\ LET r == FlattenSubmodAttrs_visit(tree, self_) IN
       /\ result' = r.node
       /\ raised' = r.err
       /\ self_' = r.st
  /\ pc' = "done"
  /\ UNCHANGED <<pass, tree, heap>>

SpecSubmod == InitSubmod /\ [][RunFlattenSubmodAttrs]_vars

\* The claim's side of C3.  The expressions of a statement, in order.
StmtExprs(stmt) ==
  CASE stmt.kind = "Expr"   -> <<stmt.value>>
    [] stmt.kind = "Assign" -> stmt.targets \o <<stmt.value>>
    [] OTHER -> <<>>

IsSubmodChain(e) ==
  e.kind = "Attribute" /\ e.value.kind = "Attribute" /\ HasClassName(e.value.obj)

IsUnrelatedAttr(e) ==
  e.kind = "Attribute" /\ e.value.kind = "Name" /\ ~HasClassName(e.obj)

FlatName(e) == Name(e.value.obj.name \o "$" \o e.attr, e.ctx, e.obj)

\* C3: every chain s.sub.port through a component instance becomes the one
\* Name node 'sub$port' with port's context and port's own annotation, the
\* sub node gone, whatever the visitor processed before; and the remembered
\* prefix is never applied to an attribute of an unrelated chain, which
\* comes back as it was.
C3_SubmodFlattened ==
  (pass = "FlattenSubmodAttrs" /\ pc = "done") =>
    /\ raised = ""
    /\ Len(result.body) = Len(tree.body)
    /\ \A k \in 1..Len(tree.body) :
         LET before == StmtExprs(tree.body[k])
             after  == StmtExprs(result.body[k])
         IN  \A j \in 1..Len(before) :
               /\ IsSubmodChain(before[j]) => after[j] = FlatName(before[j])
               /\ IsUnrelatedAttr(before[j]) => after[j] = before[j]

-----------------------------------------------------------------------------
(* FlattenListAttrs                                                        *)

MaxArrayLen == 2

ListClasses == {"ModelList", "BundleList", "PortList"}

\* obj[0], as Python evaluates it: the first element of a list, a bit of a
\* signal, an exception for anything that cannot be indexed.
FirstElement(obj) ==
  CASE obj.cls \in ListClasses ->
         IF obj.n > 0 THEN [err |-> "", cls |-> obj.elts[1].cls, obj |-> obj.elts[1]]
         ELSE [err |-> "IndexError", cls |-> "", obj |-> NoObject]
    [] obj.cls = "Signal" ->
         [err |-> "", cls |-> "Bits", obj |-> Object("Bits", obj.id \o "[0]", "", 1)]
    [] OTHER -> [err |-> "TypeError", cls |-> "", obj |-> NoObject]

\* getattr( x, attr ) on an element of a list of components or bundles.
ElementField(x, attr) ==
  [Object("Signal", x.id \o "." \o attr, attr, 4) EXCEPT !.parent = x.id]

\* PortList([ getattr( x, attr ) for x in obj ]) with its name set.
ProjectedList(obj, attr, name) ==
  ListObject("PortList", obj.id \o "$" \o attr, name,
             [k \in 1..Len(obj.elts) |-> ElementField(obj.elts[k], attr)])

\* The name of element k of the list called base, and name.split('[')[0].
ElementName(base, k) == base \o "[" \o ToString(k) \o "]"
ListNames == {"arr", "bun"}
BeforeBracket(name) ==
  IF \E b \in ListNames, k \in 0..MaxArrayLen : name = ElementName(b, k)
  THEN CHOOSE b \in ListNames : \E k \in 0..MaxArrayLen : name = ElementName(b, k)
  ELSE name

RECURSIVE FlattenListAttrs_visit(_, _)
RECURSIVE FlattenListAttrs_visit_list(_, _)

\* Lines 246-260: rename the array the removed attribute was read from.
FlattenListAttrs_rename(node, st) ==
  IF st.attr = "" THEN Ret(node, st)
  ELSE LET first == FirstElement(node.obj) IN
       IF first.err # "" THEN Raise(first.err, st)
       ELSE IF first.cls = "Model"
       THEN LET new == node.attr \o "$" \o st.attr IN
            Ret([node EXCEPT !.attr = new,
                             !.obj = ProjectedList(node.obj, st.attr, new)], st)
       ELSE IF first.cls = "PortBundle"
       THEN LET new == node.attr \o "_" \o st.attr IN
            Ret([node EXCEPT !.attr = new,
                             !.obj = ProjectedList(node.obj, st.attr, new)], st)
       ELSE Raise("Don't know how to flatten this!", st)

\* visit_Attribute (lines 242-273).
FlattenListAttrs_visit_Attribute(node, st) ==
  LET r == FlattenListAttrs_rename(node, st) IN
  IF r.err # "" THEN r
  ELSE IF r.node.value = Deleted THEN r
  ELSE IF r.node.value.kind = "Subscript"
  THEN LET v == FlattenListAttrs_visit(r.node.value, [attr |-> r.node.attr]) IN
       IF v.err # "" THEN v ELSE Ret(v.node, [attr |-> ""])
  ELSE r

\* visit_Subscript (lines 275-290).
FlattenListAttrs_visit_Subscript(node, st) ==
  LET first == IF st.attr = "" THEN [err |-> "", cls |-> "", obj |-> NoObject]
               ELSE FirstElement(node.obj)
      node1 ==
        IF first.cls = "Model"
        THEN [node EXCEPT !.obj = ProjectedList(node.obj, st.attr,
                                   BeforeBracket(first.obj.name) \o "$" \o st.attr)]
        ELSE IF first.cls = "PortBundle"
        THEN [node EXCEPT !.obj = ProjectedList(node.obj, st.attr,
                                   node.obj.name \o "_" \o st.attr)]
        ELSE node
  IN  IF first.err # "" THEN Raise(first.err, st)
      ELSE LET v == FlattenListAttrs_visit(node1.value, st) IN
           IF v.err # "" THEN v
           ELSE LET i == FlattenListAttrs_visit(node1.slice, v.st) IN
                IF i.err # "" THEN i
                ELSE Ret([node1 EXCEPT !.value = v.node, !.slice = i.node], i.st)

FlattenListAttrs_visit_list(nodes, st) ==
  IF nodes = <<>> THEN Ret(<<>>, st)
  ELSE LET h == FlattenListAttrs_visit(Head(nodes), st) IN
       IF h.err # "" THEN h
       ELSE LET t == FlattenListAttrs_visit_list(Tail(nodes), h.st) IN
            IF t.err # "" THEN t ELSE Ret(<<h.node>> \o t.node, t.st)

FlattenListAttrs_visit(node, st) ==
  CASE node.kind = "Attribute" -> FlattenListAttrs_visit_Attribute(node, st)
    [] node.kind = "Subscript" -> FlattenListAttrs_visit_Subscript(node, st)
    [] node.kind \in {"Index", "Expr"} ->
         LET v == FlattenListAttrs_visit(node.value, st) IN
         IF v.err # "" THEN v ELSE Ret([node EXCEPT !.value = v.node], v.st)
    [] node.kind = "Assign" ->
         LET t == FlattenListAttrs_visit_list(node.targets, st) IN
         IF t.err # "" THEN t
         ELSE LET v == FlattenListAttrs_visit(node.value, t.st) IN
              IF v.err # "" THEN v
              ELSE Ret([node EXCEPT !.targets = t.node, !.value = v.node], v.st)
    [] OTHER -> Ret(node, st)

\* Lists of the component being translated: s.arr holds components, s.bun
\* holds port bundles, each element with the fields the body reads.
ElementObject(cls, base, k) ==
  [Object(cls, "s." \o ElementName(base, k), ElementName(base, k), 0)
     EXCEPT !.parent = "s"]
ArrOf(cls, lcls, base, len) ==
  ListObject(lcls, "s." \o base, base,
             [k \in 1..len |-> ElementObject(cls, base, k - 1)])
ArrObject(len) == ArrOf("Model", "ModelList", "arr", len)
BunObject(len) == ArrOf("PortBundle", "BundleList", "bun", len)

ListIndices ==
  { Num(0), Name("i", "Load", NoObject),
    Attribute(SelfName, "sel", "Load", Port("s", "sel", 1)) }

\* s.<base>[idx], annotated with the list, and s.<base>[idx].<field>,
\* annotated with the field of element 0.
ListElemRef(lst, idx) ==
  Subscript(Attribute(SelfName, lst.name, "Load", lst), Index(idx), "Load", lst)
ListFieldRef(lst, idx, field, ctx) ==
  Attribute(ListElemRef(lst, idx), field, ctx, ElementField(lst.elts[1], field))

ListExprs(ctx) ==
  { ListFieldRef(l, i, "port", ctx) :
      l \in { ArrObject(n) : n \in 1..MaxArrayLen }
            \cup { BunObject(n) : n \in 1..MaxArrayLen },
      i \in ListIndices }
  \cup { OwnPort("out", ctx) }

ListInputs ==
  { Expr(e) : e \in ListExprs("Load") }
  \cup { Assign(<<t>>, v) : t \in ListExprs("Store"), v \in ListExprs("Load") }

InitList ==
  /\ pass = "FlattenListAttrs"
  /\ pc = "ready"
  /\ tree \in ListInputs
  /\ result = NoNode
  /\ raised = ""
  /\ self_ = [attr |-> ""]
  /\ heap = NoHeap

RunFlattenListAttrs ==
  /\ pass = "FlattenListAttrs"
  /\ pc = "ready"
  /\ LET r == FlattenListAttrs_visit(tree, self_) IN
       /\ result' = r.node
       /\ raised' = r.err
       /\ self_' = r.st
  /\ pc' = "done"
  /\ UNCHANGED <<pass, tree, heap>>

SpecList == InitList /\ [][RunFlattenListAttrs]_vars

\* The claim's side of C4.
IsComponentListRef(e) ==
  /\ e.kind = "Attribute"
  /\ e.value.kind = "Subscript"
  /\ e.value.obj.cls = "ModelList"
  /\ e.value.obj.n > 0

ListFlattened(before, after) ==
  LET arr == before.value.obj IN
  /\ after.kind = "Subscript"
  /\ after.slice = before.value.slice
  /\ after.value.kind = "Attribute"
  /\ after.value.attr = before.value.value.attr \o "$" \o before.attr
  /\ after.value.obj.n = arr.n
  /\ \A k \in 1..arr.n :
       after.value.obj.elts[k] = ElementField(arr.elts[k], before.attr)

\* C4: every reference s.arr[idx].port into a non-empty list of components,
\* whatever the index expression (a literal, a local name, an attribute
\* reference), comes back as Subscript(Attribute('arr$port'), idx) with idx
\* unchanged, the renamed array annotated with a list as long as arr whose
\* element k is arr[k].port.
C4_ListFlattened ==
  (pass = "FlattenListAttrs" /\ pc = "done") =>
    \A j \in 1..Len(StmtExprs(tree)) :
      IsComponentListRef(StmtExprs(tree)[j]) =>
        /\ raised = ""
        /\ ListFlattened(StmtExprs(tree)[j], StmtExprs(result)[j])

IndexIsLiteralOrName(e) == e.value.slice.value.kind \in {"Num", "Name"}

\* C4 for the index expressions the pass handles (a literal or a bare name).
C4_ListFlattenedPlainIndex ==
  (pass = "FlattenListAttrs" /\ pc = "done"
     /\ \A j \in 1..Len(StmtExprs(tree)) :
          StmtExprs(tree)[j].kind = "Attribute" /\
          StmtExprs(tree)[j].value.kind = "Subscript" =>
            IndexIsLiteralOrName(StmtExprs(tree)[j])) =>
    \A j \in 1..Len(StmtExprs(tree)) :
      IsComponentListRef(StmtExprs(tree)[j]) =>
        /\ raised = ""
        /\ ListFlattened(StmtExprs(tree)[j], StmtExprs(result)[j])

-----------------------------------------------------------------------------
(* InferTemporaryTypes                                                     *)

MaxCallArgs == 3

BoolOp(values)   == [kind |-> "BoolOp", values |-> values]
Compare(left, right) == [kind |-> "Compare", left |-> left, right |-> right]
BinOp(left, right)   == [kind |-> "BinOp", left |-> left, right |-> right]

\* node._object: only the nodes the Binder annotates have the attribute.
HasObjectSlot(node) == "obj" \in DOMAIN node

IntObject(n) == Object("int", "", "", n)
IsInt(obj)    == obj.cls = "int"
IsSignal(obj) == obj.cls \in {"Signal", "Wire"}

\* Wire( nbits ) with its name set to the target's identifier.
Wire(nbits, name) == Object("Wire", "new:" \o name, name, nbits)

\* copy.copy( obj ) with name reset to the target's identifier (and the
\* parent link cleared): a new object, the original untouched.
CopyRenamed(obj, name) ==
  [obj EXCEPT !.id = "copy:" \o obj.id, !.name = name, !.parent = ""]

\* sum( [x._object.nbits for x in args] ), line 448.
RECURSIVE SumOfWidths(_)
SumOfWidths(args) ==
  IF args = <<>> THEN [err |-> "", n |-> 0]
  ELSE IF ~HasObjectSlot(Head(args)) \/ ~IsSignal(Head(args).obj)
       THEN [err |-> "AttributeError", n |-> 0]
       ELSE LET t == SumOfWidths(Tail(args)) IN
            IF t.err # "" THEN t ELSE [err |-> "", n |-> Head(args).obj.n + t.n]

\* The Call branch of visit_Assign (lines 438-457): the object to attach.
InferTemporaryTypes_call(call, name) ==
  IF call.func.kind # "Name" THEN [err |-> "AttributeError", obj |-> NoObject]
  ELSE IF call.func.id \in {"sext", "zext"}
  THEN IF Len(call.args) < 2 THEN [err |-> "IndexError", obj |-> NoObject]
       ELSE IF ~HasObjectSlot(call.args[2])
            THEN [err |-> "AttributeError", obj |-> NoObject]
       ELSE IF ~IsInt(call.args[2].obj)
            THEN [err |-> "AssertionError", obj |-> NoObject]
       ELSE [err |-> "", obj |-> Wire(call.args[2].obj.n, name)]
  ELSE IF call.func.id = "concat"
  THEN LET w == SumOfWidths(call.args) IN
       IF w.err # "" THEN [err |-> w.err, obj |-> NoObject]
       ELSE [err |-> "", obj |-> Wire(w.n, name)]
  ELSE IF call.func.id \in {"reduce_and", "reduce_or", "reduce_xor"}
  THEN [err |-> "", obj |-> Wire(1, name)]
  ELSE [err |-> "Function is not translatable", obj |-> NoObject]

\* Lines 400-416: a Name or Attribute on the right-hand side.
InferTemporaryTypes_alias(value, name) ==
  IF IsInt(value.obj)
  THEN [err |-> "", obj |-> Object("tuple", "", name, value.obj.n)]
  ELSE IF value.obj = NoObject THEN [err |-> "AttributeError", obj |-> NoObject]
  ELSE [err |-> "", obj |-> CopyRenamed(value.obj, name)]

\* The object inferred from the right-hand side's shape (lines 400-462).
InferTemporaryTypes_infer(value, name) ==
  CASE value.kind \in {"Name", "Attribute"} -> InferTemporaryTypes_alias(value, name)
    [] value.kind = "Num" ->
         [err |-> "", obj |-> Object("tuple", "", name, value.n)]
    [] value.kind \in {"BoolOp", "Compare"} -> [err |-> "", obj |-> Wire(1, name)]
    [] value.kind = "Subscript" /\ value.slice.kind = "Index" ->
         [err |-> "", obj |-> Wire(1, name)]
    [] value.kind = "Call" -> InferTemporaryTypes_call(value, name)
    [] OTHER -> [err |-> "Cannot infer type", obj |-> NoObject]

\* visit_Assign (lines 389-464).
InferTemporaryTypes_visit_Assign(node) ==
  IF Len(node.targets) # 1 THEN Raise("AssertionError", NoFields)
  ELSE IF node.targets[1].obj # NoObject THEN Ret(node, NoFields)
  ELSE IF node.targets[1].kind # "Name" THEN Raise("AssertionError", NoFields)
  ELSE LET i == InferTemporaryTypes_infer(node.value, node.targets[1].id) IN
       IF i.err # "" THEN Raise(i.err, NoFields)
       ELSE Ret([node EXCEPT !.targets[1].obj = i.obj], NoFields)

RECURSIVE InferTemporaryTypes_visit(_)
RECURSIVE InferTemporaryTypes_visit_list(_)

\* generic_visit over a body: the statements in order, up to the first
\* one that raises.
InferTemporaryTypes_visit_list(nodes) ==
  IF nodes = <<>> THEN Ret(<<>>, NoFields)
  ELSE LET h == InferTemporaryTypes_visit(Head(nodes)) IN
       IF h.err # "" THEN h
       ELSE LET t == InferTemporaryTypes_visit_list(Tail(nodes)) IN
            IF t.err # "" THEN t ELSE Ret(<<h.node>> \o t.node, NoFields)

InferTemporaryTypes_visit(node) ==
  IF node.kind = "Assign" THEN InferTemporaryTypes_visit_Assign(node)
  ELSE IF node.kind = "Module"
  THEN LET b == InferTemporaryTypes_visit_list(node.body) IN
       IF b.err # "" THEN b ELSE Ret([node EXCEPT !.body = b.node], NoFields)
  ELSE Ret(node, NoFields)

\* The assignments the pass is run on.
SignalA == Name("a", "Load", Object("Signal", "a", "a", 4))
SignalB == Attribute(SelfName, "b", "Load", Port("s", "b", 8))
CallArgExprs ==
  { SignalA, SignalB, Name("W", "Load", IntObject(16)), Num(16),
    Name("u", "Load", NoObject) }
CallFuncs ==
  { Name(f, "Load", NoObject) :
      f \in {"sext", "zext", "concat", "reduce_and", "reduce_or", "reduce_xor",
             "min"} }
  \cup { Attribute(SelfName, "fn", "Load", NoObject) }

InferValues ==
  { Call(f, a) : f \in CallFuncs, a \in SeqsUpTo(CallArgExprs, MaxCallArgs) }
  \cup CallArgExprs
  \cup { BoolOp(<<SignalA, SignalB>>), Compare(SignalA, Num(3)),
         BinOp(SignalA, SignalB),
         Subscript(SignalA, Index(Num(0)), "Load", SignalA.obj),
         Subscript(SignalA, Slice(Num(0), Num(2), NoNode), "Load", SignalA.obj) }

InferTargets ==
  { <<Name("tmp", "Store", NoObject)>>,
    <<OwnPort("out", "Store")>>,
    <<Attribute(Name("t", "Load", NoObject), "f", "Store", NoObject)>>,
    <<Name("tmp", "Store", NoObject), Name("tmp2", "Store", NoObject)>> }

InferInputs == { Assign(t, v) : t \in InferTargets, v \in InferValues }

InitInfer ==
  /\ pass = "InferTemporaryTypes"
  /\ pc = "ready"
  /\ tree \in InferInputs
  /\ result = NoNode
  /\ raised = ""
  /\ self_ = NoFields
  /\ heap = NoHeap

RunInferTemporaryTypes ==
  /\ pass = "InferTemporaryTypes"
  /\ pc = "ready"
  /\ LET r == InferTemporaryTypes_visit(tree) IN
       /\ result' = r.node
       /\ raised' = r.err
  /\ pc' = "done"
  /\ UNCHANGED <<pass, tree, self_, heap>>

SpecInfer == InitInfer /\ [][RunInferTemporaryTypes]_vars

\* The claim's side of C5.
IsTemporaryFromCall(node) ==
  /\ node.kind = "Assign"
  /\ Len(node.targets) = 1
  /\ node.targets[1].kind = "Name"
  /\ node.targets[1].obj = NoObject
  /\ node.value.kind = "Call"
  /\ node.value.func.kind = "Name"

\* An explicit integer width: a numeric literal, or a name resolving to a
\* plain integer.
IsIntegerExpr(e) == e.kind = "Num" \/ (HasObjectSlot(e) /\ IsInt(e.obj))
IntegerOf(e) == IF e.kind = "Num" THEN e.n ELSE e.obj.n

RECURSIVE WidthsSum(_)
WidthsSum(args) ==
  IF args = <<>> THEN 0 ELSE Head(args).obj.n + WidthsSum(Tail(args))

AllHaveWidth(args) ==
  \A k \in 1..Len(args) : HasObjectSlot(args[k]) /\ IsSignal(args[k].obj)

AttachedWire(name, nbits) ==
  /\ raised = ""
  /\ result.targets[1].obj.cls = "Wire"
  /\ result.targets[1].obj.name = name
  /\ result.targets[1].obj.n = nbits

\* C5: for tmp = f(...) with tmp an unannotated bare name, the attached
\* temporary signal is named tmp and is as wide as the explicit integer width
\* argument for sext/zext (whatever the first argument's width), as the sum
\* of the arguments' widths for concat, and 1 bit for the reductions; any
\* other function raises and attaches nothing.
C5_CallWidths ==
  (pass = "InferTemporaryTypes" /\ pc = "done" /\ IsTemporaryFromCall(tree)) =>
    LET f    == tree.value.func.id
        args == tree.value.args
        name == tree.targets[1].id
    IN  /\ (f \in {"sext", "zext"} /\ Len(args) = 2 /\ IsIntegerExpr(args[2]))
             => AttachedWire(name, IntegerOf(args[2]))
        /\ (f = "concat" /\ AllHaveWidth(args))
             => AttachedWire(name, WidthsSum(args))
        /\ f \in {"reduce_and", "reduce_or", "reduce_xor"}
             => AttachedWire(name, 1)
        /\ f \notin {"sext", "zext", "concat", "reduce_and", "reduce_or",
                     "reduce_xor"}
             => (raised # "" /\ result = NoNode)

-----------------------------------------------------------------------------
(* AnnotateWithObjects (the Binder) and PyObj                              *)

MaxBindChain == 2

\* PyObj( name, inst ); NoPyObj is current_obj = None.
PyObj(name, inst) == [isNone |-> FALSE, name |-> name, inst |-> inst]
NoPyObj == [isNone |-> TRUE, name |-> "", inst |-> NoObject]

\* PyObj.update (lines 544-546).
PyObj_update(o, name, inst) == PyObj(o.name \o name, inst)

\* The object graph getattr reads: the fields of the component being
\* translated, of its sub-components, and of a signal.
FieldsOf(obj) ==
  CASE obj = TopModel -> {"sub", "out", "arr", "N"}
    [] obj.cls = "Model" -> {"port"}
    [] obj.cls = "Signal" -> {"nbits"}
    [] OTHER -> {}

\* PyObj.getattr (lines 547-548), where the attribute can be read.
PyObj_getattr(o, attr) ==
  CASE o.inst = TopModel /\ attr = "sub" -> SubModel("sub")
    [] o.inst = TopModel /\ attr = "out" -> Port("s", "out", 2)
    [] o.inst = TopModel /\ attr = "arr" -> ArrObject(MaxArrayLen)
    [] o.inst = TopModel /\ attr = "N"   -> IntObject(8)
    [] o.inst.cls = "Model" /\ attr = "port" -> ElementField(o.inst, "port")
    [] OTHER -> IntObject(o.inst.n)

\* func.func_globals and the closure of the function being translated.
FuncGlobals(id) == IF id = "W" THEN IntObject(16) ELSE NoObject
GlobalNames == {"W"}
ClosedVars(id) ==
  IF id = "s" THEN TopModel ELSE Object("Signal", "k", "k", 3)
ClosedNames == {"s", "k"}

\* Line 41 with two of the four names forgotten.
AnnotateWithObjects_tolerated_Mutant(attr) == attr \in {"next", "value"}

\* Line 41: the attribute names whose lookup may fail.
AnnotateWithObjects_tolerated(attr) == attr \in ReservedAccessors

\* visit_Name (lines 49-74).
AnnotateWithObjects_visit_Name(node, st) ==
  LET new_obj ==
        IF node.id \in GlobalNames THEN PyObj("", FuncGlobals(node.id))
        ELSE IF node.id \notin ClosedNames THEN NoPyObj
        ELSE IF ClosedVars(node.id) = TopModel THEN PyObj("", TopModel)
        ELSE PyObj(node.id, ClosedVars(node.id))
  IN  Ret([node EXCEPT !.obj = new_obj.inst], [current_obj |-> new_obj])

RECURSIVE AnnotateWithObjects_visit(_, _)
RECURSIVE AnnotateWithObjects_visit_list(_, _)

\* visit_Attribute (lines 29-47).
AnnotateWithObjects_visit_Attribute(node, st) ==
  LET g == AnnotateWithObjects_visit(node.value, st) IN
  IF g.err # "" THEN g
  ELSE LET cur == g.st.current_obj
           node1 == [node EXCEPT !.value = g.node]
       IN  IF cur.isNone
           THEN Ret([node1 EXCEPT !.obj = NoObject], g.st)
           ELSE IF node.attr \in FieldsOf(cur.inst)
           THEN LET upd == PyObj_update(cur, node.attr, PyObj_getattr(cur, node.attr))
                IN  Ret([node1 EXCEPT !.obj = upd.inst], [current_obj |-> upd])
           ELSE IF ~AnnotateWithObjects_tolerated(node.attr)
           THEN Raise("Error: Unknown attribute for this object: " \o node.attr,
                      g.st)
           ELSE Ret([node1 EXCEPT !.obj = cur.inst], g.st)

\* visit_Subscript (lines 76-95).
AnnotateWithObjects_visit_Subscript(node, st) ==
  LET v == AnnotateWithObjects_visit(node.value, st) IN
  IF v.err # "" THEN v
  ELSE LET i == AnnotateWithObjects_visit(node.slice, [current_obj |-> NoPyObj]) IN
       IF i.err # "" THEN i
       ELSE LET cur == v.st.current_obj
                node1 == [node EXCEPT !.value = v.node, !.slice = i.node,
                                      !.obj = cur.inst]
            IN  IF cur.isNone THEN Ret(node1, v.st)
                ELSE LET first == FirstElement(cur.inst) IN
                     IF first.err # "" THEN Raise(first.err, v.st)
                     ELSE Ret(node1,
                              [current_obj |-> PyObj_update(cur, "[]", first.obj)])

AnnotateWithObjects_visit(node, st) ==
  CASE node.kind = "Name" -> AnnotateWithObjects_visit_Name(node, st)
    [] node.kind = "Attribute" -> AnnotateWithObjects_visit_Attribute(node, st)
    [] node.kind = "Subscript" -> AnnotateWithObjects_visit_Subscript(node, st)
    [] node.kind \in {"Index", "Expr"} ->
         LET v == AnnotateWithObjects_visit(node.value, st) IN
         IF v.err # "" THEN v ELSE Ret([node EXCEPT !.value = v.node], v.st)
    [] node.kind = "Assign" ->
         LET t == AnnotateWithObjects_visit_list(node.targets, st) IN
         IF t.err # "" THEN t
         ELSE LET v == AnnotateWithObjects_visit(node.value, t.st) IN
              IF v.err # "" THEN v
              ELSE Ret([node EXCEPT !.targets = t.node, !.value = v.node], v.st)
    [] node.kind \in {"Compare", "BinOp"} ->
         LET l == AnnotateWithObjects_visit(node.left, st) IN
         IF l.err # "" THEN l
         ELSE LET r == AnnotateWithObjects_visit(node.right, l.st) IN
              IF r.err # "" THEN r
              ELSE Ret([node EXCEPT !.left = l.node, !.right = r.node], r.st)
    [] node.kind = "Module" ->
         LET b == AnnotateWithObjects_visit_list(node.body, st) IN
         IF b.err # "" THEN b ELSE Ret([node EXCEPT !.body = b.node], b.st)
    [] OTHER -> Ret(node, st)

\* generic_visit over a list field: each node in order, the instance's
\* fields carried from one to the next.
AnnotateWithObjects_visit_list(nodes, st) ==
  IF nodes = <<>> THEN Ret(<<>>, st)
  ELSE LET h == AnnotateWithObjects_visit(Head(nodes), st) IN
       IF h.err # "" THEN h
       ELSE LET t == AnnotateWithObjects_visit_list(Tail(nodes), h.st) IN
            IF t.err # "" THEN t ELSE Ret(<<h.node>> \o t.node, t.st)

\* The expressions the Binder is run on, not yet annotated.
BindNames == {"s", "k", "W", "t"}
BindAttrs == {"sub", "port", "out", "N", "next", "v", "bogus"}
BindIndices == {Num(0), Name("k", "Load", NoObject)}

RECURSIVE BindChains(_)
BindChains(d) ==
  IF d = 0 THEN { Name(id, "Load", NoObject) : id \in BindNames }
  ELSE BindChains(d - 1) \cup
       { Attribute(e, a, "Load", NoObject) : e \in BindChains(d - 1), a \in BindAttrs }

BindSubscripts ==
  { Subscript(Attribute(Name("s", "Load", NoObject), a, "Load", NoObject),
              Index(i), "Load", NoObject) :
      a \in {"arr", "out", "sub"}, i \in BindIndices }

BindInputs ==
  { Expr(e) : e \in BindChains(MaxBindChain) \cup BindSubscripts }
  \cup { Expr(Attribute(e, a, "Load", NoObject)) :
           e \in BindSubscripts, a \in BindAttrs }

InitBind ==
  /\ pass = "AnnotateWithObjects"
  /\ pc = "ready"
  /\ tree \in BindInputs
  /\ result = NoNode
  /\ raised = ""
  /\ self_ = [current_obj |-> NoPyObj]
  /\ heap = NoHeap

RunAnnotateWithObjects ==
  /\ pass = "AnnotateWithObjects"
  /\ pc = "ready"
  /\ LET r == AnnotateWithObjects_visit(tree, self_) IN
       /\ result' = r.node
       /\ raised' = r.err
       /\ self_' = r.st
  /\ pc' = "done"
  /\ UNCHANGED <<pass, tree, heap>>

SpecBind == InitBind /\ [][RunAnnotateWithObjects]_vars

\* The claim's side of C6.  The receiver of the statement's outermost
\* attribute access, as the Binder resolved it.
Receiver == AnnotateWithObjects_visit(tree.value.value, [current_obj |-> NoPyObj])

UnreadableAttribute ==
  /\ pass = "AnnotateWithObjects" /\ pc = "done"
  /\ tree.value.kind = "Attribute"
  /\ Receiver.err = ""
  /\ ~Receiver.st.current_obj.isNone
  /\ tree.value.attr \notin FieldsOf(Receiver.st.current_obj.inst)

\* C6: for X.attr with X resolved to an object and attr not readable off
\* it, a name outside next/value/n/v raises an error naming attr and the
\* node gets no annotation; one of the four reserved names raises nothing
\* and the node is annotated with the receiver's object.
C6_UnknownAttribute ==
  UnreadableAttribute =>
    IF tree.value.attr \in {"next", "value", "n", "v"}
    THEN /\ raised = ""
         /\ result.value.obj = Receiver.st.current_obj.inst
    ELSE /\ raised = "Error: Unknown attribute for this object: " \o tree.value.attr
         /\ result = NoNode

C6_Witness ==
  /\ UnreadableAttribute
  /\ tree.value.attr = "v"
  /\ tree.value.value.kind = "Attribute"
  /\ raised = ""
  /\ result.value.obj = Port("s", "out", 2)

C6_WitnessRaise ==
  /\ UnreadableAttribute
  /\ tree.value.attr = "bogus"
  /\ raised # ""

\* The claim's side of C15.  The statement is a subscript X[idx] whose X
\* the Binder resolved to a non-empty indexed collection.
Subscripted == AnnotateWithObjects_visit(tree.value.value, [current_obj |-> NoPyObj])

SubscriptOfCollection ==
  /\ pass = "AnnotateWithObjects" /\ pc = "done"
  /\ tree.value.kind = "Subscript"
  /\ Subscripted.err = ""
  /\ ~Subscripted.st.current_obj.isNone
  /\ Subscripted.st.current_obj.inst.cls \in ListClasses
  /\ Subscripted.st.current_obj.inst.n > 0

\* The index expression bound in a traversal that starts with no binding.
IsolatedIndex ==
  AnnotateWithObjects_visit(tree.value.slice, [current_obj |-> NoPyObj]).node

\* C15: for X[idx] with X resolved to a non-empty collection C, the
\* Subscript node is annotated with C's first element C[0] (not with C),
\* idx is annotated in a traversal that starts with no binding, and after
\* the subscript the running binding is C[0] under X's path followed by
\* '[]', whatever idx contained.
C15_SubscriptAnnotatedWithFirstElement ==
  SubscriptOfCollection =>
    LET C == Subscripted.st.current_obj IN
    /\ raised = ""
    /\ result.value.obj = C.inst.elts[1]
    /\ result.value.slice = IsolatedIndex
    /\ self_.current_obj = PyObj(C.name \o "[]", C.inst.elts[1])

\* C15, the part the code keeps: the index is bound in isolation and the
\* running binding becomes C[0] under the path followed by '[]'; the
\* Subscript node itself carries the collection C.
C15_SubscriptAnnotatedWithCollection ==
  SubscriptOfCollection =>
    LET C == Subscripted.st.current_obj IN
    /\ raised = ""
    /\ result.value.obj = C.inst
    /\ result.value.slice = IsolatedIndex
    /\ self_.current_obj = PyObj(C.name \o "[]", C.inst.elts[1])

-----------------------------------------------------------------------------
(* The Binder followed by InferTemporaryTypes on one function body         *)

MaxBodyStmts == 2

\* Nodes as the parser leaves them: nothing attached yet.
RawName(id, ctx) == Name(id, ctx, NoObject)
RawAttr(attr, ctx) == Attribute(RawName("s", "Load"), attr, ctx, NoObject)

\* t and u are local temporaries, W is a global, s is the component.
BodyStmts ==
  { Assign(<<RawName("t", "Store")>>, RawAttr("out", "Load")),
    Assign(<<RawName("t", "Store")>>, RawName("W", "Load")),
    Assign(<<RawName("t", "Store")>>, Num(5)),
    Assign(<<RawName("u", "Store")>>, RawName("t", "Load")),
    Assign(<<RawAttr("out", "Store")>>, RawName("t", "Load")),
    Assign(<<RawName("t", "Store")>>, BinOp(RawAttr("out", "Load"), RawName("W", "Load"))),
    Assign(<<RawName("t", "Store")>>, Compare(RawAttr("out", "Load"), Num(3))),
    Assign(<<RawName("t", "Store")>>, RawAttr("bogus", "Load")) }

BodyInputs == { Module(b) : b \in SeqsUpTo(BodyStmts, MaxBodyStmts) }

InitBody ==
  /\ pass = "AnnotateWithObjects+InferTemporaryTypes"
  /\ pc = "ready"
  /\ tree \in BodyInputs
  /\ result = NoNode
  /\ raised = ""
  /\ self_ = [current_obj |-> NoPyObj]
  /\ heap = NoHeap

\* AnnotateWithObjects( model, func ).visit( tree )
Body_bind ==
  /\ pass = "AnnotateWithObjects+InferTemporaryTypes"
  /\ pc = "ready"
  /\ LET r == AnnotateWithObjects_visit(tree, self_) IN
       /\ result' = r.node
       /\ raised' = r.err
       /\ self_' = r.st
  /\ pc' = "bound"
  /\ UNCHANGED <<pass, tree, heap>>

\* InferTemporaryTypes().visit( tree ) on the tree the Binder returned.
Body_infer ==
  /\ pass = "AnnotateWithObjects+InferTemporaryTypes"
  /\ pc = "bound"
  /\ raised = ""
  /\ LET r == InferTemporaryTypes_visit(result) IN
       /\ result' = r.node
       /\ raised' = r.err
  /\ pc' = "inferred"
  /\ UNCHANGED <<pass, tree, self_, heap>>

NextBody == Body_bind \/ Body_infer

SpecBody == InitBody /\ [][NextBody]_vars

\* The Name nodes of a tree, and those that denote a local temporary.
RECURSIVE NameNodes(_)
NameNodes(node) ==
  CASE node.kind = "Name" -> {node}
    [] node.kind \in {"Attribute", "Index", "Expr"} -> NameNodes(node.value)
    [] node.kind = "Subscript" -> NameNodes(node.value) \cup NameNodes(node.slice)
    [] node.kind \in {"Compare", "BinOp"} ->
         NameNodes(node.left) \cup NameNodes(node.right)
    [] node.kind = "Assign" ->
         NameNodes(node.value)
           \cup UNION { NameNodes(node.targets[k]) : k \in 1..Len(node.targets) }
    [] node.kind = "Module" ->
         UNION { NameNodes(node.body[k]) : k \in 1..Len(node.body) }
    [] OTHER -> {}

IsLocalName(n) == n.id \notin (GlobalNames \cup ClosedNames)
LocalNameNodes(node) == { n \in NameNodes(node) : IsLocalName(n) }

BodyBound == pass = "AnnotateWithObjects+InferTemporaryTypes"
               /\ pc = "bound" /\ raised = ""
BodyInferred == pass = "AnnotateWithObjects+InferTemporaryTypes"
                  /\ pc = "inferred" /\ raised = ""

\* C13: after the Binder every Name node of a local temporary has a null
\* annotation; when InferTemporaryTypes then completes without raising,
\* every Name node of a local temporary, assignment target or later read,
\* has a non-null annotation (so a body with a temporary that cannot be
\* typed makes the pass raise).
C13_TemporariesTyped ==
  /\ BodyBound => \A n \in LocalNameNodes(result) : n.obj = NoObject
  /\ BodyInferred => \A n \in LocalNameNodes(result) : n.obj # NoObject

\* C13, the part the code keeps: local names are unannotated after the
\* Binder, and after a completed inference every local name that is the
\* target of an assignment is annotated.
C13_TargetsTyped ==
  /\ BodyBound => \A n \in LocalNameNodes(result) : n.obj = NoObject
  /\ BodyInferred =>
       \A k \in 1..Len(result.body) :
         \A n \in LocalNameNodes(result.body[k].targets[1]) : n.obj # NoObject

-----------------------------------------------------------------------------
(* SimplifyDecorator                                                       *)

MaxDecorators == 3

\* visit_FunctionDef (lines 310-322): the assertion tests only that the
\* list is not empty; the first decorator's attribute name is kept.
SimplifyDecorator_visit_FunctionDef(node) ==
  IF Len(node.decorator_list) = 0 THEN Raise("AssertionError", NoFields)
  ELSE IF node.decorator_list[1].kind # "Attribute"
       THEN Raise("AttributeError", NoFields)
  ELSE Ret(FunctionDef(node.name, node.args, node.body,
                       <<node.decorator_list[1].attr>>), NoFields)

SimplifyDecorator_visit(node) ==
  IF node.kind = "FunctionDef" THEN SimplifyDecorator_visit_FunctionDef(node)
  ELSE Ret(node, NoFields)

Decorators ==
  { Attribute(Name("s", "Load", NoObject), "tick", "Load", NoObject),
    Attribute(Name("s", "Load", NoObject), "combinational", "Load", NoObject),
    Name("staticmethod", "Load", NoObject) }

DecoratorInputs ==
  { FunctionDef(f, <<>>, b, d) :
      f \in {"logic", "seq_logic"},
      b \in {<<Pass>>, <<Expr(Num(0))>>},
      d \in SeqsUpTo(Decorators, MaxDecorators) }

InitDecor ==
  /\ pass = "SimplifyDecorator"
  /\ pc = "ready"
  /\ tree \in DecoratorInputs
  /\ result = NoNode
  /\ raised = ""
  /\ self_ = NoFields
  /\ heap = NoHeap

RunSimplifyDecorator ==
  /\ pass = "SimplifyDecorator"
  /\ pc = "ready"
  /\ LET r == SimplifyDecorator_visit(tree) IN
       /\ result' = r.node
       /\ raised' = r.err
  /\ pc' = "done"
  /\ UNCHANGED <<pass, tree, self_, heap>>

SpecDecor == InitDecor /\ [][RunSimplifyDecorator]_vars

\* C7: a decorator list of length 0 or of length 2 or more raises an error
\* and no rewritten function is produced; a list of exactly one decorator
\* s.tag yields the function with decorator list [tag].
C7_ExactlyOneDecorator ==
  (pass = "SimplifyDecorator" /\ pc = "done") =>
    /\ Len(tree.decorator_list) # 1 => (raised # "" /\ result = NoNode)
    /\ (Len(tree.decorator_list) = 1 /\ tree.decorator_list[1].kind = "Attribute")
         => /\ raised = ""
            /\ result.decorator_list = <<tree.decorator_list[1].attr>>
            /\ result.name = tree.name /\ result.body = tree.body

-----------------------------------------------------------------------------
(* GetRegsIntsParamsTempsArrays (the classification pass)                  *)

MaxStmts == 2

\* The lists whose subscripts the bodies use.  A list object outlives a
\* run: its is_lhs attribute lives in `heap`, keyed by the list's identity.
ArrayNames == {"a", "b"}
SignalList(base) == ArrOf("Signal", "PortList", base, MaxArrayLen)
ArrayIds == { SignalList(b).id : b \in ArrayNames }

NoFlag == [has |-> FALSE, is_lhs |-> FALSE]
FreshHeap == [id \in ArrayIds |-> NoFlag]

\* isinstance( obj, (int,Bits) ), isinstance( obj, list ), obj.fullname.
IsParam(obj) == obj.cls \in {"int", "Bits"}
IsList(obj)  == obj.cls \in ListClasses
FullName(obj) ==
  IF obj.parent = "" THEN obj.name ELSE obj.parent \o "." \o obj.name

\* The fields get() resets (lines 474-479); pos counts the statements of
\* the tree's body already visited.
FreshFields ==
  [is_lhs |-> FALSE, store |-> {}, loopvar |-> {}, params |-> {},
   arrays |-> {}, arrayelms |-> {}, pos |-> 0]

\* A traversal in progress: instance fields, object attributes, exception.
Visiting(st, hp, err) == [st |-> st, heap |-> hp, err |-> err]

\* self.store[ obj.fullname ] = obj
StorePut(store, obj) ==
  { o \in store : FullName(o) # FullName(obj) } \cup {obj}

\* Filing that keeps a loop variable's name out of the register set.
Classify_file_Mutant(obj, st) ==
  IF obj \in st.arrayelms THEN st
  ELSE IF IsSignal(obj)
       THEN IF obj.name \in st.loopvar THEN st
            ELSE [st EXCEPT !.store = StorePut(st.store, obj)]
  ELSE IF obj.cls = "tuple" THEN [st EXCEPT !.loopvar = @ \cup {obj.name}]
  ELSE st

\* Filing that treats every named target as an integer variable.
Classify_file_MutantNames(obj, st) ==
  IF obj \in st.arrayelms THEN st
  ELSE IF IsSignal(obj)
       THEN [st EXCEPT !.store = StorePut(st.store, obj),
                       !.loopvar = @ \cup {obj.name}]
  ELSE IF obj.cls = "tuple" THEN [st EXCEPT !.loopvar = @ \cup {obj.name}]
  ELSE st

\* Filing that forgets the array elements seen so far.
Classify_file_MutantElems(obj, st) ==
  IF IsSignal(obj) THEN [st EXCEPT !.store = StorePut(st.store, obj)]
  ELSE IF obj.cls = "tuple" THEN [st EXCEPT !.loopvar = @ \cup {obj.name}]
  ELSE st

\* Lines 507-509: where the assignment target's object is filed.
Classify_file(obj, st) ==
  IF obj \in st.arrayelms THEN st
  ELSE IF IsSignal(obj) THEN [st EXCEPT !.store = StorePut(st.store, obj)]
  ELSE IF obj.cls = "tuple" THEN [st EXCEPT !.loopvar = @ \cup {obj.name}]
  ELSE st

\* visit_Attribute / visit_Name (lines 483-491): no recursion.
Classify_visit_Attribute(node, c) ==
  IF IsParam(node.obj)
  THEN [c EXCEPT !.st.params = @ \cup {<<node.attr, node.obj>>}]
  ELSE c

Classify_visit_Name(node, c) ==
  IF IsParam(node.obj)
  THEN [c EXCEPT !.st.params = @ \cup {<<node.id, node.obj>>}]
  ELSE c

\* Lines 524-525: is_lhs |= self._is_lhs, or created when absent.
Classify_flag(flag, is_lhs) ==
  IF flag.has THEN [has |-> TRUE, is_lhs |-> flag.is_lhs \/ is_lhs]
  ELSE [has |-> TRUE, is_lhs |-> is_lhs]

RECURSIVE Classify_visit(_, _)
RECURSIVE Classify_visit_list(_, _)

Classify_visit_list(nodes, c) ==
  IF nodes = <<>> \/ c.err # "" THEN c
  ELSE Classify_visit_list(Tail(nodes), Classify_visit(Head(nodes), c))

\* visit_Subscript (lines 517-535).
Classify_visit_Subscript(node, c) ==
  LET c1 == IF IsList(node.obj)
            THEN [c EXCEPT
                    !.heap[node.obj.id] = Classify_flag(@, c.st.is_lhs),
                    !.st.arrays = @ \cup {node.obj},
                    !.st.arrayelms = @ \cup { node.obj.elts[k] :
                                               k \in 1..Len(node.obj.elts) }]
            ELSE c
  IN  Classify_visit(node.slice, Classify_visit(node.value, c1))

\* visit_Assign (lines 493-509).
Classify_visit_Assign(node, c) ==
  IF Len(node.targets) # 1 THEN [c EXCEPT !.err = "AssertionError"]
  ELSE LET t == Classify_visit(node.targets[1], [c EXCEPT !.st.is_lhs = TRUE])
           v == Classify_visit(node.value, [t EXCEPT !.st.is_lhs = FALSE])
       IN  [v EXCEPT !.st = Classify_file(node.targets[1].obj, v.st)]

\* visit_For (lines 511-515).
Classify_visit_For(node, c) ==
  IF node.iter.kind # "Slice" \/ node.target.kind # "Name"
  THEN [c EXCEPT !.err = "AssertionError"]
  ELSE LET c1 == [c EXCEPT !.st.loopvar = @ \cup {node.target.id}]
           t  == Classify_visit(node.target, c1)
           i  == Classify_visit(node.iter, t)
       IN  Classify_visit_list(node.body, i)

\* NodeVisitor.visit: the handler of the node's class, else generic_visit.
Classify_visit(node, c) ==
  IF c.err # "" THEN c
  ELSE CASE node.kind = "Name"      -> Classify_visit_Name(node, c)
         [] node.kind = "Attribute" -> Classify_visit_Attribute(node, c)
         [] node.kind = "Subscript" -> Classify_visit_Subscript(node, c)
         [] node.kind = "Assign"    -> Classify_visit_Assign(node, c)
         [] node.kind = "For"       -> Classify_visit_For(node, c)
         [] node.kind \in {"Index", "Expr"} -> Classify_visit(node.value, c)
         [] node.kind = "Compare" ->
              Classify_visit(node.right, Classify_visit(node.left, c))
         [] node.kind = "Slice" ->
              Classify_visit(node.step,
                Classify_visit(node.upper, Classify_visit(node.lower, c)))
         [] OTHER -> c

\* The annotated, flattened bodies the pass is run on.
ArrayRef(base, idx, ctx) ==
  Subscript(Attribute(SelfName, base, "Load", SignalList(base)), Index(idx), ctx,
            SignalList(base))
Register(ctx) == OwnPort("r", ctx)
LocalIndex == Name("i", "Load", NoObject)
IntTemp(name) == Name(name, "Store", Object("tuple", "", name, 5))
SignalTemp(name) == Name(name, "Store", CopyRenamed(Register("Load").obj, name))
\* s.x is the very object that is element 0 of s.a.
ElementAlias(ctx) == Attribute(SelfName, "x", ctx, SignalList("a").elts[1])
Parameter == Name("N", "Load", IntObject(8))

SimpleStmts ==
  { Assign(<<ArrayRef("a", LocalIndex, "Store")>>, Num(5)),
    Assign(<<ArrayRef("a", ArrayRef("b", LocalIndex, "Load"), "Store")>>,
           Register("Load")),
    Assign(<<Register("Store")>>, ArrayRef("a", LocalIndex, "Load")),
    Assign(<<Register("Store")>>, ArrayRef("b", Num(0), "Load")),
    Assign(<<IntTemp("t")>>, Num(5)),
    Assign(<<SignalTemp("i")>>, Register("Load")),
    Assign(<<Name("i", "Store", Wire(1, "i"))>>, Compare(Register("Load"), Parameter)),
    Assign(<<ElementAlias("Store")>>, Parameter),
    Assign(<<IntTemp("t"), IntTemp("u")>>, Num(5)) }

LoopBodyStmts ==
  { Assign(<<ArrayRef("b", LocalIndex, "Store")>>, ArrayRef("a", LocalIndex, "Load")),
    Assign(<<SignalTemp("i")>>, Register("Load")),
    Assign(<<SignalTemp("j")>>, Register("Load")),
    Assign(<<IntTemp("t")>>, Num(5)) }

LoopStmts ==
  { For(Name(v, "Store", NoObject), Slice(Num(0), Parameter, Num(1)), <<b>>) :
      v \in {"i", "j"}, b \in LoopBodyStmts }

ClassifyInputs ==
  { Module(b) : b \in SeqsUpTo(SimpleStmts \cup LoopStmts, MaxStmts) }

InitClassify ==
  /\ pass = "GetRegsIntsParamsTempsArrays"
  /\ pc = "ready"
  /\ tree = NoNode
  /\ result = NoNode
  /\ raised = ""
  /\ self_ = FreshFields
  /\ heap = FreshHeap

\* get (lines 472-479): reset the fields, start on the tree.
Classify_get ==
  /\ pass = "GetRegsIntsParamsTempsArrays"
  /\ pc = "ready"
  /\ tree' \in ClassifyInputs
  /\ self_' = FreshFields
  /\ pc' = "visiting"
  /\ UNCHANGED <<pass, result, raised, heap>>

\* self.visit( tree ) (line 480), one statement of the body at a time.
Classify_visit_stmt ==
  /\ pass = "GetRegsIntsParamsTempsArrays"
  /\ pc = "visiting"
  /\ self_.pos < Len(tree.body)
  /\ LET c == Classify_visit(tree.body[self_.pos + 1],
                             Visiting(self_, heap, ""))
     IN  /\ self_' = [c.st EXCEPT !.pos = self_.pos + 1]
         /\ heap' = c.heap
         /\ raised' = c.err
         /\ pc' = IF c.err # "" THEN "done" ELSE "visiting"
  /\ UNCHANGED <<pass, tree, result>>

\* Line 481: the four sets handed back.
Classify_return ==
  /\ pass = "GetRegsIntsParamsTempsArrays"
  /\ pc = "visiting"
  /\ self_.pos = Len(tree.body)
  /\ result' = [kind |-> "Sets", regs |-> self_.store, loopvar |-> self_.loopvar,
                params |-> self_.params, arrays |-> self_.arrays]
  /\ pc' = "done"
  /\ UNCHANGED <<pass, tree, raised, self_, heap>>

\* The tree and the sets are discarded after a translation; the design
\* objects, with whatever was written onto them, stay.
Classify_discard ==
  /\ pass = "GetRegsIntsParamsTempsArrays"
  /\ pc = "done"
  /\ tree' = NoNode
  /\ result' = NoNode
  /\ raised' = ""
  /\ self_' = FreshFields
  /\ pc' = "ready"
  /\ UNCHANGED <<pass, heap>>

NextClassify ==
  Classify_get \/ Classify_visit_stmt \/ Classify_return \/ Classify_discard

SpecClassify == InitClassify /\ [][NextClassify]_vars

\* The claims' side of C8-C10: the statements of a tree, loops' bodies
\* included, and the loops among them.
RECURSIVE StmtsOf(_)
StmtsOf(body) ==
  IF body = <<>> THEN {}
  ELSE LET h == Head(body) IN
       {h} \cup StmtsOf(Tail(body))
           \cup (IF h.kind = "For" THEN StmtsOf(h.body) ELSE {})

Returned == pass = "GetRegsIntsParamsTempsArrays" /\ pc = "done" /\ raised = ""

AllSingleTarget ==
  \A a \in StmtsOf(tree.body) : a.kind = "Assign" => Len(a.targets) = 1

\* A loop whose induction variable is also assigned, as a signal, in its body.
OverlapAssigns(loop) ==
  { a \in StmtsOf(loop.body) :
      /\ a.kind = "Assign"
      /\ Len(a.targets) = 1
      /\ a.targets[1].kind = "Name"
      /\ a.targets[1].id = loop.target.id
      /\ IsSignal(a.targets[1].obj) }

\* The register set holds one signal per fully-qualified name: the signal
\* is in it under its name, as itself unless another assignment of the tree
\* registered a signal of the same name.
TargetObjects ==
  { a.targets[1].obj : a \in { x \in StmtsOf(tree.body) : x.kind = "Assign" } }
InRegisterSet(obj) ==
  \E r \in result.regs :
    /\ FullName(r) = FullName(obj)
    /\ r = obj \/ (r \in TargetObjects /\ IsSignal(r))

WrittenIn(arr, body) ==
  \E a \in StmtsOf(body) :
    /\ a.kind = "Assign"
    /\ \E k \in 1..Len(a.targets) :
         a.targets[k].kind = "Subscript" /\ a.targets[k].obj = arr

\* C9: after a run the is_lhs flag of each returned array is true exactly
\* when a subscript of that array is the target of an assignment in that
\* tree; an array only read, or only used inside the index expression of a
\* target, has the flag false.
C9_IsLhsIffWritten ==
  Returned =>
    \A arr \in result.arrays :
      /\ heap[arr.id].has
      /\ heap[arr.id].is_lhs <=> WrittenIn(arr, tree.body)

ForTargets == { l.target.id : l \in { x \in StmtsOf(tree.body) : x.kind = "For" } }

IntTempNames ==
  { a.targets[1].obj.name :
      a \in { x \in StmtsOf(tree.body) :
                x.kind = "Assign" /\ Len(x.targets) = 1
                  /\ x.targets[1].obj.cls = "tuple" } }

\* C10 as claimed: every name in the returned loop-variable set is the
\* target of some for-loop of the tree; a name that is only an assignment
\* target, such as an integer temporary, is not in the set.
C10_LoopVarsAreForTargets ==
  Returned => result.loopvar \subseteq ForTargets

\* C10 as amended: every name in the returned loop-variable set is the
\* target of a for-loop of the tree or the name of an assignment target
\* annotated with a (name, integer) pair; no other assignment target's name
\* is in it.
C10_LoopVarsAreForTargetsOrIntTemps ==
  Returned => result.loopvar \subseteq (ForTargets \cup IntTempNames)

C10_Witness ==
  /\ Returned
  /\ "t" \in result.loopvar
  /\ "t" \notin ForTargets
  /\ "i" \in result.loopvar
  /\ result.regs # {}

\* C14: no pass after the Binder changes a field of a design object
\* attached to a node; in particular classification leaves every attached
\* array object exactly as it was, so a later run over another tree that
\* references the same array finds the object as if no run had happened.
C14_AttachedObjectsUntouched ==
  pass = "GetRegsIntsParamsTempsArrays" => heap = FreshHeap

\* The statement Classify_visit_stmt visits next, and the elements of the
\* arrays whose subscripts the run has visited so far.
NextStmt == tree.body[self_.pos + 1]
ElementsSeen ==
  UNION { { arr.elts[k] : k \in 1..Len(arr.elts) } : arr \in self_.arrays }
AssignsToSeenElement ==
  /\ self_.pos < Len(tree.body)
  /\ NextStmt.kind = "Assign"
  /\ Len(NextStmt.targets) = 1
  /\ NextStmt.targets[1].obj \in ElementsSeen

\* C16: during a run the array set and the array-element set only grow,
\* and an assignment visited after a subscript into an array A, with a
\* target annotated with an element of A, leaves the register set as it
\* was.
C16_ElementsNeverRegistered ==
  [][ (pass = "GetRegsIntsParamsTempsArrays" /\ pc = "visiting")
        => /\ self_.arrays \subseteq self_'.arrays
           /\ self_.arrayelms \subseteq self_'.arrayelms
           /\ AssignsToSeenElement => self_'.store = self_.store ]_vars

\* s.r = s.a[i] registered s.r and made s.a's elements known; the
\* assignment to s.x, which is s.a[0], was then visited and filed nothing.
C16_Witness ==
  /\ pass = "GetRegsIntsParamsTempsArrays"
  /\ pc = "visiting"
  /\ self_.pos = 2
  /\ tree.body[1] = Assign(<<Register("Store")>>, ArrayRef("a", LocalIndex, "Load"))
  /\ tree.body[2] = Assign(<<ElementAlias("Store")>>, Parameter)
  /\ ElementAlias("Store").obj \in self_.arrayelms
  /\ self_.store = {Register("Store").obj}
  /\ self_.arrays = {SignalList("a")}

-----------------------------------------------------------------------------
(* Bits (Bits.py): limited-precision values of a set bitwidth              *)
(*                                                                         *)
(* Python integers are unbounded two's-complement numbers: x & y, x | y,   *)
(* x ^ y and ~x are computed on the infinite sign-extended representation, *)
(* x << k is x * 2^k and x >> k is the floor of x / 2^k.                   *)

MaxBits == 2

RECURSIVE Pow2(_)
Pow2(n) == IF n <= 0 THEN 1 ELSE 2 * Pow2(n - 1)

RECURSIVE BitAnd(_, _)
BitAnd(x, y) ==
  IF x = 0 \/ y = 0 THEN 0
  ELSE IF x = -1 THEN y
  ELSE IF y = -1 THEN x
  ELSE (x % 2) * (y % 2) + 2 * BitAnd(x \div 2, y \div 2)

RECURSIVE BitOr(_, _)
BitOr(x, y) ==
  IF x = 0 THEN y
  ELSE IF y = 0 THEN x
  ELSE IF x = -1 \/ y = -1 THEN -1
  ELSE (IF x % 2 = 1 \/ y % 2 = 1 THEN 1 ELSE 0)
         + 2 * BitOr(x \div 2, y \div 2)

RECURSIVE BitXor(_, _)
BitXor(x, y) ==
  IF x = 0 THEN y
  ELSE IF y = 0 THEN x
  ELSE IF x = -1 THEN -y - 1
  ELSE IF y = -1 THEN -x - 1
  ELSE (((x % 2) + (y % 2)) % 2) + 2 * BitXor(x \div 2, y \div 2)

BitNot(x)     == -x - 1
LShift(x, k)  == x * Pow2(k)
RShift(x, k)  == x \div Pow2(k)
Max(a, b)     == IF a >= b THEN a ELSE b

\* A Python int, the None of an open slice end, a slice object, and a Bits
\* instance with its two data fields.
PyInt(n)            == [kind |-> "int", n |-> n]
PySlice(start, stop) == [kind |-> "slice", start |-> start, stop |-> stop]
BitsObject(nbits, uint) == [kind |-> "Bits", nbits |-> nbits, uint |-> uint]
IsBits(v)           == v.kind = "Bits"

Bits_max(self)  == Pow2(self.nbits) - 1
Bits_min(self)  == -Pow2(self.nbits)
Bits_mask(self) == LShift(1, self.nbits) - 1

\* Bits( nbits, value, trunc ): the instance, or the assertion that stopped
\* the constructor.  `st` of the outcome is unused (there is no receiver).
Bits_init(nbits, value, trunc) ==
  LET new == BitsObject(nbits, 0) IN
  IF ~(nbits > 0) THEN Raise("AssertionError", NoFields)
  ELSE IF ~trunc /\ ~(Bits_min(new) <= value /\ value <= Bits_max(new))
  THEN Raise("AssertionError", NoFields)
  ELSE LET value_uint == IF value >= 0 THEN value ELSE BitNot(-value) + 1
       IN  Ret(BitsObject(nbits, BitAnd(value_uint, Bits_mask(new))), NoFields)

\* The outcome of a method that builds its result with the constructor:
\* the receiver is untouched whether the constructor returned or raised.
Bits_new(self, nbits, value, trunc) ==
  [Bits_init(nbits, value, trunc) EXCEPT !.st = self]

\* value = value._uint when a Bits is passed where an integer is expected.
Bits_unwrap(value) == IF IsBits(value) THEN value.uint ELSE value.n

Bits_write(self, value) ==
  LET v == Bits_unwrap(value) IN
  IF ~(Bits_min(self) <= v /\ v <= Bits_max(self))
  THEN Raise("AssertionError", self)
  ELSE Ret(NoNode, [self EXCEPT !.uint = BitAnd(v, Bits_mask(self))])

Bits_getitem(self, addr) ==
  IF addr.kind = "slice" THEN
    IF addr.start = NoNode /\ addr.stop = NoNode
    THEN Bits_new(self, self.nbits, self.uint, FALSE)
    ELSE LET start == IF addr.start = NoNode THEN 0 ELSE addr.start.n
             stop  == IF addr.start # NoNode /\ addr.stop = NoNode
                      THEN self.nbits ELSE addr.stop.n
             nbits == stop - start
             mask  == LShift(1, nbits) - 1
         IN  IF ~(0 <= start /\ start < stop /\ stop <= self.nbits)
             THEN Raise("AssertionError", self)
             ELSE Bits_new(self, nbits,
                    RShift(BitAnd(self.uint, LShift(mask, start)), start), FALSE)
  ELSE IF ~(0 <= addr.n /\ addr.n < self.nbits)
  THEN Raise("AssertionError", self)
  ELSE Bits_new(self, 1,
         RShift(BitAnd(self.uint, LShift(1, addr.n)), addr.n), FALSE)

Bits_write_slice(self, addr, value) ==
  LET v == Bits_unwrap(value) IN
  IF addr.kind = "slice" THEN
    IF addr.start = NoNode /\ addr.stop = NoNode
    THEN IF ~(Bits_min(self) <= v /\ v <= Bits_max(self))
         THEN Raise("AssertionError", self)
         ELSE Ret(NoNode, [self EXCEPT !.uint = v])
    ELSE LET start == IF addr.start = NoNode THEN 0 ELSE addr.start.n
             stop  == IF addr.start # NoNode /\ addr.stop = NoNode
                      THEN self.nbits ELSE addr.stop.n
             nbits == stop - start
             ones  == LShift(1, nbits) - 1
             mask  == BitNot(LShift(ones, start))
             cleared_val == BitAnd(self.uint, mask)
         IN  IF ~(0 <= start /\ start < stop /\ stop <= self.nbits)
             THEN Raise("AssertionError", self)
             ELSE IF ~(Bits_min(self) <= v /\ v <= Bits_max(self))
             THEN Raise("AssertionError", self)
             ELSE Ret(NoNode, [self EXCEPT !.uint =
                        BitOr(cleared_val, LShift(BitAnd(v, ones), start))])
  ELSE IF ~(0 <= addr.n /\ addr.n < self.nbits)
  THEN Raise("AssertionError", self)
  ELSE IF ~(0 <= v /\ v <= 1)
  THEN Raise("AssertionError", self)
  ELSE LET mask == BitNot(LShift(1, addr.n))
           cleared_val == BitAnd(self.uint, mask)
       IN  Ret(NoNode, [self EXCEPT !.uint = BitOr(cleared_val, LShift(v, addr.n))])

\* operand coercion of __add__/__sub__ and of the bitwise operators:
\* a plain integer becomes Bits( self.nbits, other ).
Bits_coerce(self, other) ==
  IF IsBits(other) THEN Ret(other, self)
  ELSE Bits_new(self, self.nbits, other.n, FALSE)

Bits_invert(self) == Bits_new(self, self.nbits, BitNot(self.uint), TRUE)

Bits_add(self, other) ==
  LET o == Bits_coerce(self, other) IN
  IF o.err # "" THEN o
  ELSE Bits_new(self, Max(self.nbits, o.node.nbits),
                self.uint + o.node.uint, TRUE)

Bits_sub(self, other) ==
  LET o == Bits_coerce(self, other) IN
  IF o.err # "" THEN o
  ELSE Bits_new(self, Max(self.nbits, o.node.nbits),
                self.uint - o.node.uint, TRUE)

Bits_mul(self, other) ==
  IF ~IsBits(other)
  THEN Bits_new(self, 2 * self.nbits, self.uint * other.n, FALSE)
  ELSE IF self.nbits # other.nbits THEN Raise("AssertionError", self)
  ELSE Bits_new(self, 2 * self.nbits, self.uint * other.uint, FALSE)

Bits_lshift(self, other) ==
  LET k == Bits_unwrap(other) IN
  IF k >= self.nbits THEN Bits_new(self, self.nbits, 0, FALSE)
  ELSE IF k < 0 THEN Raise("ValueError", self)
  ELSE Bits_new(self, self.nbits, LShift(self.uint, k), TRUE)

Bits_rshift(self, other) ==
  LET k == Bits_unwrap(other) IN
  IF k < 0 THEN Raise("ValueError", self)
  ELSE Bits_new(self, self.nbits, RShift(self.uint, k), FALSE)

\* self >= other: the answer as node (a Python bool), or the assertion.
Bits_ge(self, other) ==
  IF IsBits(other) /\ self.nbits # other.nbits
  THEN Raise("AssertionError", self)
  ELSE LET o == Bits_unwrap(other) IN
       IF ~(o >= 0) THEN Raise("AssertionError", self)
       ELSE Ret([kind |-> "bool", b |-> self.uint >= o], self)

\* The three bitwise operators differ only in the operator applied.
Bits_apply(op, x, y) ==
  CASE op = "__and__" -> BitAnd(x, y)
    [] op = "__xor__" -> BitXor(x, y)
    [] op = "__or__"  -> BitOr(x, y)

Bits_bitwise(op, self, other) ==
  LET o == Bits_coerce(self, other) IN
  IF o.err # "" THEN o
  ELSE LET nonneg == Bits_ge(o.node, PyInt(0)) IN
       IF nonneg.err # "" \/ ~nonneg.node.b THEN Raise("AssertionError", self)
       ELSE Bits_new(self, Max(self.nbits, o.node.nbits),
                     Bits_apply(op, self.uint, o.node.uint), FALSE)

Bits_and(self, other) == Bits_bitwise("__and__", self, other)
Bits_xor(self, other) == Bits_bitwise("__xor__", self, other)
Bits_or(self, other)  == Bits_bitwise("__or__", self, other)

\* Operands and addresses of the calls.
Widths       == 1 .. MaxBits
BitsOperands == { BitsObject(n, v) : n \in Widths, v \in 0 .. (Pow2(MaxBits) - 1) }
                  \cap UNION { { BitsObject(n, v) : v \in 0 .. (Pow2(n) - 1) } : n \in Widths }
IntOperands  == { PyInt(v) : v \in { -(Pow2(MaxBits) + 1), -Pow2(MaxBits), -1, 0, 1,
                                     Pow2(MaxBits) - 1, Pow2(MaxBits) } }
Operands     == BitsOperands \cup IntOperands
SliceStarts  == { NoNode, PyInt(0), PyInt(1) }
SliceStops   == { NoNode } \cup { PyInt(k) : k \in Widths }
Addresses    == { PyInt(k) : k \in 0 .. MaxBits }
                  \cup { PySlice(a, b) : a \in SliceStarts, b \in SliceStops }

BitsCall(op, args, self) ==
  [kind |-> "BitsCall", op |-> op, args |-> args, self |-> self]

InitBits ==
  /\ pass = "Bits"
  /\ pc = "constructed"
  /\ \E n \in Widths : \E v \in (-Pow2(n)) .. (Pow2(n) - 1) :
       self_ = Bits_init(n, v, FALSE).node
  /\ tree = NoNode
  /\ result = NoNode
  /\ raised = ""
  /\ heap = NoHeap

\* One method call on the instance: the call is recorded with the receiver
\* as it was, the receiver becomes what the method left, and the value
\* returned or the exception raised is kept.
Bits_called(op, args, r) ==
  /\ pass = "Bits"
  /\ pass' = pass
  /\ pc' = "called"
  /\ tree' = BitsCall(op, args, self_)
  /\ result' = r.node
  /\ raised' = r.err
  /\ self_' = r.st
  /\ heap' = heap

Call_write   == \E v \in Operands : Bits_called("write", <<v>>, Bits_write(self_, v))
Call_write_slice ==
  \E a \in Addresses : \E v \in Operands :
    Bits_called("write_slice", <<a, v>>, Bits_write_slice(self_, a, v))
Call_getitem == \E a \in Addresses : Bits_called("__getitem__", <<a>>, Bits_getitem(self_, a))
Call_invert  == Bits_called("__invert__", <<>>, Bits_invert(self_))
Call_add     == \E o \in Operands : Bits_called("__add__", <<o>>, Bits_add(self_, o))
Call_sub     == \E o \in Operands : Bits_called("__sub__", <<o>>, Bits_sub(self_, o))
Call_mul     == \E o \in Operands : Bits_called("__mul__", <<o>>, Bits_mul(self_, o))
Call_lshift  == \E o \in Operands : Bits_called("__lshift__", <<o>>, Bits_lshift(self_, o))
Call_rshift  == \E o \in Operands : Bits_called("__rshift__", <<o>>, Bits_rshift(self_, o))
Call_and     == \E o \in Operands : Bits_called("__and__", <<o>>, Bits_and(self_, o))
Call_xor     == \E o \in Operands : Bits_called("__xor__", <<o>>, Bits_xor(self_, o))
Call_or      == \E o \in Operands : Bits_called("__or__", <<o>>, Bits_or(self_, o))

NextBits ==
  \/ Call_write \/ Call_write_slice \/ Call_getitem \/ Call_invert
  \/ Call_add \/ Call_sub \/ Call_mul \/ Call_lshift \/ Call_rshift
  \/ Call_and \/ Call_xor \/ Call_or

SpecBits == InitBits /\ [][NextBits]_vars


\* The receiver of the recorded call held a value of its width.
InRange(b)   == 0 <= b.uint /\ b.uint <= Pow2(b.nbits) - 1
BitsCalled(ops) == pass = "Bits" /\ pc = "called" /\ tree.op \in ops
Bit(x, k)    == RShift(x, k) % 2

\* C11: for Bits operands a and b, a+b and a-b return a Bits of width
\* max(wa, wb) holding (ua+ub) and (ua-ub) modulo 2^max(wa, wb), a*b returns
\* a Bits of double width holding the product truncated into that width,
\* and none of the three raises, whatever the widths and values.
C11_ArithmeticNeverRaises ==
  (BitsCalled({"__add__", "__sub__", "__mul__"})
     /\ IsBits(tree.args[1]) /\ InRange(tree.self))
  => LET a == tree.self
         b == tree.args[1]
         w == Max(a.nbits, b.nbits)
     IN  /\ raised = ""
         /\ tree.op = "__add__"
              => result = BitsObject(w, (a.uint + b.uint) % Pow2(w))
         /\ tree.op = "__sub__"
              => result = BitsObject(w, (a.uint - b.uint) % Pow2(w))
         /\ tree.op = "__mul__"
              => /\ IsBits(result)
                 /\ result.uint = (a.uint * b.uint) % Pow2(result.nbits)

\* C11, the part the code keeps: addition and subtraction of Bits operands
\* never raise and wrap at the wider operand's width; multiplication of
\* operands of one width never raises and has twice that width.
C11_AddSubWrap ==
  (BitsCalled({"__add__", "__sub__", "__mul__"})
     /\ IsBits(tree.args[1]) /\ InRange(tree.self))
  => LET a == tree.self
         b == tree.args[1]
         w == Max(a.nbits, b.nbits)
     IN  /\ tree.op = "__add__"
              => raised = "" /\ result = BitsObject(w, (a.uint + b.uint) % Pow2(w))
         /\ tree.op = "__sub__"
              => raised = "" /\ result = BitsObject(w, (a.uint - b.uint) % Pow2(w))
         /\ (tree.op = "__mul__" /\ a.nbits = b.nbits)
              => raised = "" /\ result = BitsObject(2 * w, a.uint * b.uint)

\* C12: a bitwise operation (&, |, ^) with a negative operand, a negative
\* plain integer such as -1 included, is rejected with an assertion failure
\* and no result; with non-negative operands the result has the width of
\* the wider operand, a plain integer counting at the receiver's width.
C12_BitwiseRejectsNegative ==
  (BitsCalled({"__and__", "__xor__", "__or__"}) /\ InRange(tree.self))
  => LET a == tree.self
         b == tree.args[1]
     IN  /\ (~IsBits(b) /\ b.n < 0)
              => raised = "AssertionError" /\ result = NoNode
         /\ IsBits(b)
              => raised = "" /\ result.nbits = Max(a.nbits, b.nbits)
         /\ (~IsBits(b) /\ 0 <= b.n /\ b.n <= Bits_max(a))
              => raised = "" /\ result.nbits = a.nbits

\* C12, the part the code keeps: with a Bits operand, or a plain integer
\* within 0 .. 2^n - 1 for a receiver of width n, the operation returns a
\* Bits of the wider operand's width.
C12_BitwiseWidth ==
  (BitsCalled({"__and__", "__xor__", "__or__"}) /\ InRange(tree.self))
  => LET a == tree.self
         b == tree.args[1]
     IN  /\ IsBits(b)
              => raised = "" /\ result.nbits = Max(a.nbits, b.nbits)
         /\ (~IsBits(b) /\ 0 <= b.n /\ b.n <= Bits_max(a))
              => raised = "" /\ result.nbits = a.nbits

\* The start and stop of a slice address once the open end is filled in.
SliceStart(self, addr) == IF addr.start = NoNode THEN 0 ELSE addr.start.n
SliceStop(self, addr)  == IF addr.stop = NoNode THEN self.nbits ELSE addr.stop.n
BoundedSlice(self, addr) ==
  /\ addr.kind = "slice"
  /\ ~(addr.start = NoNode /\ addr.stop = NoNode)
  /\ 0 <= SliceStart(self, addr)
  /\ SliceStart(self, addr) < SliceStop(self, addr)
  /\ SliceStop(self, addr) <= self.nbits

\* C17: write_slice at [start:stop] with a value that needs more than
\* stop-start bits fires the assertion and leaves the stored value as it
\* was; a value that fits replaces exactly bits start..stop-1, leaves every
\* other bit alone, and is what a following read of [start:stop] returns.
C17_WriteSliceChecksWidth ==
  (BitsCalled({"write_slice"}) /\ InRange(tree.self)
     /\ BoundedSlice(tree.self, tree.args[1])
     /\ Bits_unwrap(tree.args[2]) >= 0)
  => LET a     == tree.self
         addr  == tree.args[1]
         v     == Bits_unwrap(tree.args[2])
         start == SliceStart(a, addr)
         stop  == SliceStop(a, addr)
     IN  IF v > Pow2(stop - start) - 1
         THEN raised = "AssertionError" /\ self_ = a
         ELSE /\ raised = ""
              /\ Bits_getitem(self_, addr).node = BitsObject(stop - start, v)
              /\ \A k \in 0 .. (a.nbits - 1) :
                   (k < start \/ k >= stop) => Bit(self_.uint, k) = Bit(a.uint, k)

\* C17, the part the code keeps: a value that fits the slice is stored in
\* it, the other bits are untouched, and reading the slice returns it.
C17_FittingValueStored ==
  (BitsCalled({"write_slice"}) /\ InRange(tree.self)
     /\ BoundedSlice(tree.self, tree.args[1])
     /\ Bits_unwrap(tree.args[2]) >= 0
     /\ Bits_unwrap(tree.args[2]) <=
          Pow2(SliceStop(tree.self, tree.args[1])
                 - SliceStart(tree.self, tree.args[1])) - 1)
  => /\ raised = ""
     /\ Bits_getitem(self_, tree.args[1]).node
          = BitsObject(SliceStop(tree.self, tree.args[1])
                         - SliceStart(tree.self, tree.args[1]),
                       Bits_unwrap(tree.args[2]))
     /\ \A k \in 0 .. (tree.self.nbits - 1) :
          (k < SliceStart(tree.self, tree.args[1])
             \/ k >= SliceStop(tree.self, tree.args[1]))
          => Bit(self_.uint, k) = Bit(tree.self.uint, k)

\* C18: the stored value of a Bits of width n is within 0 .. 2^n - 1 after
\* construction and after every successful write and write_slice, and every
\* Bits returned by an operation is within the range of its own width.
C18_StoredValueInRange ==
  pass = "Bits"
  => /\ InRange(self_)
     /\ (result # NoNode /\ IsBits(result)) => InRange(result)

\* C18, the part the code keeps: whatever the receiver holds, a returned
\* Bits is within the range of its width.
C18_ReturnedValueInRange ==
  (pass = "Bits" /\ result # NoNode /\ IsBits(result)) => InRange(result)

-----------------------------------------------------------------------------
Init == InitLoops \/ InitStrip \/ InitSubmod \/ InitList
          \/ InitInfer \/ InitBind \/ InitDecor
          \/ InitClassify \/ InitBits \/ InitBody

Next == RunThreeExprLoops \/ RunRemoveValueNext \/ RunFlattenSubmodAttrs
          \/ RunFlattenListAttrs \/ RunInferTemporaryTypes
          \/ RunAnnotateWithObjects \/ RunSimplifyDecorator
          \/ NextClassify \/ NextBits \/ NextBody

Spec == Init /\ [][Next]_vars
====
